---- MODULE Spec2Model ----
(***************************************************************************)
(* Module scheduler: prerequisite graph (cycle detection, topological      *)
(* sort), credit planner and course-path simulation of                     *)
(* ModuleSchedulerAppV2.py.                                                *)
(*                                                                         *)
(* A Python dict is modelled as a sequence of Module records with pairwise *)
(* distinct codes: the sequence order is the dict's insertion (iteration)  *)
(* order.  A Python list is a sequence, a Python set a set.  None and a    *)
(* present value are told apart by the Some/None wrappers.                 *)
(***************************************************************************)
EXTENDS Integers, Sequences, FiniteSets, TLC

VARIABLES
    \* ---- topological_sort / detect_cycle called on a subset
    selected_modules,       \* the subset (dict code -> Module) passed in
    sort_result,            \* what topological_sort returned on it
    cycle_result,           \* what detect_cycle returned on it
    \* ---- application state
    modules_catalog,        \* self.modules_catalog
    students_data,          \* self.students_data: the student records
    current_student,        \* self.current_student: None or Some(Student)
    displayed_frame,        \* self._displayed_frame
    messagebox,             \* title of the last dialog shown, "" when none
    \* ---- generate_credit_plan
    plan_pc,                \* position in the handler
    target_credits,         \* int(self.target_credits_var.get())
    remaining_modules,
    eligible_modules,
    completed_set,
    semesters,
    current_semester,
    current_credits,
    plan_text,              \* what the handler wrote to self.plan_text
    \* ---- run_simulation
    sim_pc,                 \* position in the handler
    module_codes,           \* the parsed input path
    sim_index,              \* number of codes of the path already walked
    simulated_completed,
    valid_path,
    simulation_output,      \* what the handler wrote to self.simulation_output
    \* ---- update_eligible_modules_list
    eligible_modules_tree,  \* rows of self.eligible_modules_tree
    \* ---- update_upcoming_modules_list, update_progress_dashboard
    upcoming_modules_tree,  \* rows of self.upcoming_modules_tree
    recommended_tree,       \* rows of self.recommended_tree
    progress_frame          \* what the labels of self.progress_frame show

graphVars == <<selected_modules, sort_result, cycle_result>>
appVars   == <<modules_catalog, students_data, current_student, displayed_frame,
               messagebox>>
planVars  == <<plan_pc, target_credits, remaining_modules, eligible_modules,
               completed_set, semesters, current_semester, current_credits,
               plan_text>>
simVars   == <<sim_pc, module_codes, sim_index, simulated_completed,
               valid_path, simulation_output>>
viewVars  == <<eligible_modules_tree, upcoming_modules_tree, recommended_tree,
               progress_frame>>
vars      == <<graphVars, appVars, planVars, simVars, viewVars>>

----------------------------------------------------------------------------
(* Bounds of the model *)

\* Longest prerequisite list of a module.
MaxPrereqs == 2

\* Longest path entered into the simulation.
MaxPath == 3

\* Module codes, in the order in which they are inserted into a dict.
CodeOrder == <<"A", "B", "C">>
Codes == {CodeOrder[i] : i \in 1..Len(CodeOrder)}

----------------------------------------------------------------------------
(* Python values *)

None == [some |-> FALSE, val |-> <<>>]
Some(x) == [some |-> TRUE, val |-> x]

\* class Module; the name is only displayed and is left out.
Module(code, tracks, prerequisites, credits) ==
    [code |-> code, tracks |-> tracks, prerequisites |-> prerequisites,
     credits |-> credits]

\* credits=3 when a catalog entry names none
DefaultCredits == 3

\* Dict operations on a sequence of Module records.
Keys(d) == [i \in 1..Len(d) |-> d[i].code]
KeySet(d) == {d[i].code : i \in 1..Len(d)}
Has(d, code) == code \in KeySet(d)
Get(d, code) == d[CHOOSE i \in 1..Len(d) : d[i].code = code]
DelKey(d, code) == SelectSeq(d, LAMBDA m : m.code # code)

Range(s) == {s[i] : i \in 1..Len(s)}

\* list.index(x): position of the first occurrence
Index(s, x) == CHOOSE i \in 1..Len(s) : s[i] = x /\ \A j \in 1..(i-1) : s[j] # x

----------------------------------------------------------------------------
(* Graph of a subset: edges prerequisite -> dependent, both in the subset *)

\* The (pre, code) pairs in the order in which the two nested loops of
\* detect_cycle and topological_sort append them.
RECURSIVE PrereqEdges(_, _, _, _)

\* Fault: an edge is appended for every listed prerequisite, also for one that
\* is not a key of the subset.
PrereqEdgesUnscoped(sel, i, j, acc) ==
    IF i > Len(sel) THEN acc
    ELSE IF j > Len(sel[i].prerequisites) THEN PrereqEdges(sel, i + 1, 1, acc)
    ELSE PrereqEdges(sel, i, j + 1,
                     Append(acc, <<sel[i].prerequisites[j], sel[i].code>>))

\* Fault: a prerequisite that names the module itself gives no edge.
PrereqEdgesSkipsSelf(sel, i, j, acc) ==
    IF i > Len(sel) THEN acc
    ELSE IF j > Len(sel[i].prerequisites) THEN PrereqEdges(sel, i + 1, 1, acc)
    ELSE LET pre == sel[i].prerequisites[j] IN
         IF Has(sel, pre) /\ pre # sel[i].code
         THEN PrereqEdges(sel, i, j + 1, Append(acc, <<pre, sel[i].code>>))
         ELSE PrereqEdges(sel, i, j + 1, acc)

PrereqEdges(sel, i, j, acc) ==
    IF i > Len(sel) THEN acc
    ELSE IF j > Len(sel[i].prerequisites) THEN PrereqEdges(sel, i + 1, 1, acc)
    ELSE LET pre == sel[i].prerequisites[j] IN
         IF Has(sel, pre)
         THEN PrereqEdges(sel, i, j + 1, Append(acc, <<pre, sel[i].code>>))
         ELSE PrereqEdges(sel, i, j + 1, acc)

EdgeList(sel) == PrereqEdges(sel, 1, 1, <<>>)

\* graph[pre]: the dependents of pre, in insertion order (defaultdict(list))
BuildGraph(sel) ==
    LET edges == EdgeList(sel)
        pick(p) == SelectSeq(edges, LAMBDA e : e[1] = p)
    IN [p \in KeySet(sel) |-> [k \in 1..Len(pick(p)) |-> pick(p)[k][2]]]

\* Fault: the in-degree counts every listed prerequisite, also one that is not
\* a key of the subset.
BuildInDegreeAllPrereqs(sel) ==
    [c \in KeySet(sel) |-> Len(Get(sel, c).prerequisites)]

\* in_degree[code]: one per appended edge into code
BuildInDegree(sel) ==
    LET edges == EdgeList(sel) IN
    [c \in KeySet(sel) |-> Len(SelectSeq(edges, LAMBDA e : e[2] = c))]

----------------------------------------------------------------------------
(* detect_cycle: recursive DFS with visited, rec_stack, path, cycle_found *)

RECURSIVE dfs(_, _, _), dfsNeighbors(_, _, _, _)

\* Fault: the whole DFS path is reported instead of its slice from the
\* neighbor on.
CycleSliceWholePath(path, neighbor) == path

\* cycle_index = path.index(neighbor); cycle_found = path[cycle_index:]
CycleSlice(path, neighbor) == SubSeq(path, Index(path, neighbor), Len(path))

\* for neighbor in graph.get(node, []) from position i on, then the exit code
dfsNeighbors(graph, node, i, st) ==
    IF i > Len(graph[node])
    THEN [st EXCEPT !.rec_stack = @ \ {node},
                    !.path = SubSeq(@, 1, Len(@) - 1),
                    !.ret = FALSE]
    ELSE LET neighbor == graph[node][i] IN
         IF neighbor \notin st.visited
         THEN LET r == dfs(graph, neighbor, st) IN
              IF r.ret THEN r ELSE dfsNeighbors(graph, node, i + 1, r)
         ELSE IF neighbor \in st.rec_stack
         THEN [st EXCEPT !.cycle_found = Some(CycleSlice(st.path, neighbor)),
                         !.ret = TRUE]
         ELSE dfsNeighbors(graph, node, i + 1, st)

dfs(graph, node, st) ==
    dfsNeighbors(graph, node, 1,
                 [st EXCEPT !.visited = @ \cup {node},
                            !.rec_stack = @ \cup {node},
                            !.path = Append(@, node)])

RECURSIVE dfsRoots(_, _, _, _)

\* Fault: the loop over the nodes ends after the first DFS, whatever it found.
dfsRootsFirstOnly(sel, graph, i, st) ==
    IF i > Len(sel) THEN st
    ELSE dfs(graph, sel[i].code, [st EXCEPT !.path = <<>>])

\* for node in selected_modules: if node not in visited: if dfs(node, []): break
dfsRoots(sel, graph, i, st) ==
    IF i > Len(sel) THEN st
    ELSE IF sel[i].code \in st.visited THEN dfsRoots(sel, graph, i + 1, st)
    ELSE LET r == dfs(graph, sel[i].code, [st EXCEPT !.path = <<>>]) IN
         IF r.ret THEN r ELSE dfsRoots(sel, graph, i + 1, r)

detect_cycle(sel) ==
    dfsRoots(sel, BuildGraph(sel), 1,
             [visited |-> {}, rec_stack |-> {}, path |-> <<>>,
              cycle_found |-> None, ret |-> FALSE]).cycle_found

----------------------------------------------------------------------------
(* topological_sort: Kahn's algorithm with a FIFO queue *)

\* for neighbor in graph[node]: in_degree[neighbor] -= 1; enqueue at zero
RECURSIVE KahnRelax(_, _, _, _)

\* Fault: a node whose in-degree reaches zero is put at the front of the queue.
KahnRelaxPrepends(neighbors, i, in_degree, queue) ==
    IF i > Len(neighbors) THEN [in_degree |-> in_degree, queue |-> queue]
    ELSE LET n == neighbors[i]
             deg == [in_degree EXCEPT ![n] = @ - 1]
         IN KahnRelax(neighbors, i + 1, deg,
                      IF deg[n] = 0 THEN <<n>> \o queue ELSE queue)

KahnRelax(neighbors, i, in_degree, queue) ==
    IF i > Len(neighbors) THEN [in_degree |-> in_degree, queue |-> queue]
    ELSE LET n == neighbors[i]
             deg == [in_degree EXCEPT ![n] = @ - 1]
         IN KahnRelax(neighbors, i + 1, deg,
                      IF deg[n] = 0 THEN Append(queue, n) ELSE queue)

\* while queue: node = queue.popleft(); ordering.append(node); ...
RECURSIVE KahnLoop(_, _, _, _)
KahnLoop(graph, in_degree, queue, ordering) ==
    IF queue = <<>> THEN ordering
    ELSE LET node == Head(queue)
             r == KahnRelax(graph[node], 1, in_degree, Tail(queue))
         IN KahnLoop(graph, r.in_degree, r.queue, Append(ordering, node))

KahnOrdering(sel) ==
    LET in_degree == BuildInDegree(sel) IN
    KahnLoop(BuildGraph(sel), in_degree,
             SelectSeq(Keys(sel), LAMBDA c : in_degree[c] = 0), <<>>)

\* Fault: the length check is missing and the ordering is returned as it is.
topological_sortUnchecked(sel) ==
    [ordering |-> Some(KahnOrdering(sel)), cycle |-> None]

\* Fault: on failure the partial ordering is returned next to the cycle.
topological_sortKeepsOrdering(sel) ==
    LET ordering == KahnOrdering(sel) IN
    IF Len(ordering) # Len(sel)
    THEN [ordering |-> Some(ordering), cycle |-> detect_cycle(sel)]
    ELSE [ordering |-> Some(ordering), cycle |-> None]

\* returns (ordering, None) or (None, cycle)
topological_sort(sel) ==
    LET ordering == KahnOrdering(sel) IN
    IF Len(ordering) # Len(sel)
    THEN [ordering |-> None, cycle |-> detect_cycle(sel)]
    ELSE [ordering |-> Some(ordering), cycle |-> None]

----------------------------------------------------------------------------
(* The application: catalog, student records, login, frames *)

\* class Student after login(): completed holds the keys of the completed dict.
Student(student_id, course, completed) ==
    [student_id |-> student_id, course |-> course, completed |-> completed]

\* Fault: every code of the record's completed list is kept, also one that the
\* catalog does not hold.
LoginKeepsAllCompleted(student_id) ==
    /\ displayed_frame = "login_frame"
    /\ \E k \in 1..Len(students_data) :
          /\ students_data[k].student_id = student_id
          /\ \A j \in 1..(k - 1) : students_data[j].student_id # student_id
          /\ current_student' =
                 Some(Student(students_data[k].student_id, students_data[k].course,
                              Range(students_data[k].completed)))
    /\ displayed_frame' = "main_menu_frame"
    /\ messagebox' = ""
    /\ UNCHANGED <<modules_catalog, students_data, graphVars, planVars, simVars,
                   viewVars>>

\* login(): the record with the entered ID becomes the current student; of its
\* completed list only the codes found in the catalog are kept.
Login(student_id) ==
    /\ displayed_frame = "login_frame"
    /\ \E k \in 1..Len(students_data) :
          /\ students_data[k].student_id = student_id
          /\ \A j \in 1..(k - 1) : students_data[j].student_id # student_id
          /\ current_student' =
                 Some(Student(students_data[k].student_id, students_data[k].course,
                              {c \in Range(students_data[k].completed) :
                                   Has(modules_catalog, c)}))
    /\ displayed_frame' = "main_menu_frame"
    /\ messagebox' = ""
    /\ UNCHANGED <<modules_catalog, students_data, graphVars, planVars, simVars,
                   viewVars>>

\* The text of self.student_id_entry is a sequence of characters; a student ID
\* in a record is a string.
RECURSIVE Join(_)
Join(chars) == IF chars = <<>> THEN "" ELSE Head(chars) \o Join(Tail(chars))

Digits == {"0", "1", "2", "3", "4", "5", "6", "7", "8", "9"}
Whitespace == {" ", "\t", "\n"}

\* str.strip(): leading and trailing whitespace removed
RECURSIVE lstrip(_)
lstrip(chars) ==
    IF chars # <<>> /\ Head(chars) \in Whitespace THEN lstrip(Tail(chars)) ELSE chars
RECURSIVE rstrip(_)
rstrip(chars) ==
    IF chars # <<>> /\ chars[Len(chars)] \in Whitespace
    THEN rstrip(SubSeq(chars, 1, Len(chars) - 1))
    ELSE chars
strip(chars) == rstrip(lstrip(chars))

\* str.isdigit(): at least one character and every character a digit
isdigit(chars) == chars # <<>> /\ \A i \in 1..Len(chars) : chars[i] \in Digits

\* Fault: the length of the ID is not tested.
ValidIdAnyLength(student_id) == isdigit(student_id)

\* student_id.isdigit() and len(student_id) == 6
ValidId(student_id) == isdigit(student_id) /\ Len(student_id) = 6

\* messagebox.showerror(title, ...) followed by return
LoginError(title) ==
    /\ displayed_frame = "login_frame"
    /\ messagebox' = title
    /\ UNCHANGED <<modules_catalog, students_data, current_student,
                   displayed_frame, graphVars, planVars, simVars, viewVars>>

\* login() on the text of the entry: the stripped text is tested, then looked
\* up in the records, then the student is created and the main menu shown.
LoginAttempt(entry) ==
    LET student_id == strip(entry) IN
        IF ~ValidId(student_id) THEN LoginError("Invalid ID")
        ELSE IF ~\E k \in 1..Len(students_data) :
                     students_data[k].student_id = Join(student_id)
        THEN LoginError("Not Found")
        ELSE Login(Join(student_id))

\* get_core_modules_for_course: the catalog modules that list the course
get_core_modules_for_course(course) ==
    SelectSeq(modules_catalog, LAMBDA m : course \in m.tracks)

----------------------------------------------------------------------------
(* generate_credit_plan *)

\* Content of self.plan_text: a fixed message (kind) or the list of semesters,
\* and the cycle path when the text shows one.  Both messages of the handler
\* are fixed strings, and nothing is written about modules left out of the plan.
EmptyText == [kind |-> "empty", semesters |-> <<>>, cycle |-> None]
AllCompletedText ==
    [kind |-> "You have completed all core modules!", semesters |-> <<>>,
     cycle |-> None]
CycleErrorText ==
    [kind |-> "Error: Cannot generate plan due to cycle in prerequisites.",
     semesters |-> <<>>, cycle |-> None]
SemestersText(sems) == [kind |-> "semesters", semesters |-> sems, cycle |-> None]

\* Python truth value of an optional list (None and [] are false)
TruthyList(opt) == opt.some /\ opt.val # <<>>

\* Python truth value of an optional string (None and "" are false)
TruthyStr(opt) == opt.some /\ opt.val # ""

\* Fault: any(...) in place of all(...)
PrereqsMetAny(mod, completed) ==
    \E pre \in Range(mod.prerequisites) : pre \in completed

\* all(pre in completed_set for pre in mod.prerequisites)
PrereqsMet(mod, completed) ==
    \A pre \in Range(mod.prerequisites) : pre \in completed

\* Fault: the credits already in the semester are not added.
FitsAlone(mod, credits, target) == mod.credits <= target

\* current_credits + mod.credits <= target_credits
Fits(mod, credits, target) == credits + mod.credits <= target

\* Fault: the scan has no break; the last module that fits is taken.
BestFitLast(eligible, credits, target) ==
    IF \E i \in 1..Len(eligible) : Fits(eligible[i], credits, target)
    THEN Some(eligible[CHOOSE i \in 1..Len(eligible) :
                          /\ Fits(eligible[i], credits, target)
                          /\ \A j \in (i + 1)..Len(eligible) :
                                 ~Fits(eligible[j], credits, target)].code)
    ELSE None

\* The scan of eligible_modules for the first module that fits: its code, or
\* None when the scan ends without a break.
BestFit(eligible, credits, target) ==
    IF \E i \in 1..Len(eligible) : Fits(eligible[i], credits, target)
    THEN Some(eligible[CHOOSE i \in 1..Len(eligible) :
                          /\ Fits(eligible[i], credits, target)
                          /\ \A j \in 1..(i - 1) : ~Fits(eligible[j], credits, target)].code)
    ELSE None

\* Fault: the topological order is walked from its end.
InitialEligibleReversed(topo_order, remaining, completed) ==
    LET picked == SelectSeq(topo_order,
                            LAMBDA c : \A pre \in Range(Get(remaining, c).prerequisites) :
                                           pre \in completed)
        n == Len(picked)
    IN [i \in 1..n |-> Get(remaining, picked[n + 1 - i])]

\* for code in topo_order: the modules whose prerequisites are all completed
InitialEligible(topo_order, remaining, completed) ==
    LET picked == SelectSeq(topo_order,
                            LAMBDA c : PrereqsMet(Get(remaining, c), completed))
    IN [i \in 1..Len(picked) |-> Get(remaining, picked[i])]

\* Fault: the rescan after a commit is missing; only the modules eligible at
\* the start are ever scheduled.
AddNewlyEligibleNever(eligible, remaining, completed) == eligible

\* Fault: the rescan does not leave out the modules already committed.
AddNewlyEligibleAgain(eligible, remaining, completed) ==
    eligible \o SelectSeq(remaining,
                          LAMBDA m : /\ ~Has(eligible, m.code)
                                     /\ \A pre \in Range(m.prerequisites) :
                                            pre \in completed)

\* The rescan of remaining_modules after a commit: modules neither completed
\* nor already eligible whose prerequisites are now all completed are appended.
AddNewlyEligible(eligible, remaining, completed) ==
    eligible \o SelectSeq(remaining,
                          LAMBDA m : /\ m.code \notin completed
                                     /\ ~Has(eligible, m.code)
                                     /\ PrereqsMet(m, completed))

\* Lines 1066-1112: read the target, collect the remaining modules, sort them
\* and set up the loop; the three early returns end the handler.
PlanStart(target) ==
    /\ displayed_frame = "credit_planner_frame"
    /\ current_student.some
    /\ plan_pc \in {"idle", "done", "raised"}
    /\ LET student == current_student.val
           remaining == SelectSeq(get_core_modules_for_course(student.course),
                                  LAMBDA m : m.code \notin student.completed)
           sorted == topological_sort(remaining)
       IN /\ target_credits' = target
          /\ remaining_modules' = remaining
          /\ semesters' = <<>>
          /\ current_semester' = <<>>
          /\ current_credits' = 0
          /\ IF remaining = <<>>
             THEN /\ plan_text' = AllCompletedText
                  /\ plan_pc' = "done"
                  /\ eligible_modules' = <<>>
                  /\ completed_set' = {}
             ELSE IF TruthyList(sorted.cycle)
             THEN /\ plan_text' = CycleErrorText
                  /\ plan_pc' = "done"
                  /\ eligible_modules' = <<>>
                  /\ completed_set' = {}
             ELSE IF ~sorted.ordering.some
             THEN \* for code in topo_order with topo_order None: TypeError
                  /\ plan_text' = EmptyText
                  /\ plan_pc' = "raised"
                  /\ eligible_modules' = <<>>
                  /\ completed_set' = student.completed
             ELSE /\ plan_text' = EmptyText
                  /\ plan_pc' = "loop"
                  /\ completed_set' = student.completed
                  /\ eligible_modules' =
                         InitialEligible(sorted.ordering.val, remaining,
                                         student.completed)
    /\ messagebox' = ""
    /\ UNCHANGED <<modules_catalog, students_data, current_student,
                   displayed_frame, graphVars, simVars,
                   viewVars>>

\* Lines 1070-1074: the entry does not hold an integer; int() raises
\* ValueError, an error dialog is shown and the handler returns.
PlanBadTarget ==
    /\ displayed_frame = "credit_planner_frame"
    /\ current_student.some
    /\ plan_pc \in {"idle", "done", "raised"}
    /\ messagebox' = "Invalid Input"
    /\ UNCHANGED <<modules_catalog, students_data, current_student,
                   displayed_frame, graphVars, planVars, simVars,
                   viewVars>>

\* Fault: completed_set is the student's own completed dict, not a copy of its
\* keys: a commit marks the module completed for the student.
PlanCommitAliased ==
    /\ plan_pc = "loop"
    /\ eligible_modules # <<>>
    /\ LET best_fit == BestFit(eligible_modules, current_credits, target_credits) IN
       /\ TruthyStr(best_fit)
       /\ LET done == completed_set \cup {best_fit.val} IN
          /\ current_semester' = Append(current_semester, best_fit.val)
          /\ current_credits' =
                 current_credits + Get(eligible_modules, best_fit.val).credits
          /\ completed_set' = done
          /\ current_student' = Some([current_student.val EXCEPT !.completed = done])
          /\ eligible_modules' =
                 AddNewlyEligible(DelKey(eligible_modules, best_fit.val),
                                  remaining_modules, done)
    /\ UNCHANGED <<plan_pc, target_credits, remaining_modules, semesters,
                   plan_text, modules_catalog, students_data, displayed_frame,
                   messagebox, graphVars, simVars, viewVars>>

\* One iteration of `while eligible_modules` that finds a fitting module.
PlanCommit ==
    /\ plan_pc = "loop"
    /\ eligible_modules # <<>>
    /\ LET best_fit == BestFit(eligible_modules, current_credits, target_credits) IN
       /\ TruthyStr(best_fit)
       /\ LET done == completed_set \cup {best_fit.val} IN
          /\ current_semester' = Append(current_semester, best_fit.val)
          /\ current_credits' =
                 current_credits + Get(eligible_modules, best_fit.val).credits
          /\ completed_set' = done
          /\ eligible_modules' =
                 AddNewlyEligible(DelKey(eligible_modules, best_fit.val),
                                  remaining_modules, done)
    /\ UNCHANGED <<plan_pc, target_credits, remaining_modules, semesters,
                   plan_text, appVars, graphVars, simVars,
                   viewVars>>

\* Fault: the closed semester is appended but not emptied.
PlanCloseSemesterKeepsOpen ==
    /\ plan_pc = "loop"
    /\ eligible_modules # <<>>
    /\ ~TruthyStr(BestFit(eligible_modules, current_credits, target_credits))
    /\ current_semester # <<>>
    /\ semesters' = Append(semesters, current_semester)
    /\ UNCHANGED <<plan_pc, target_credits, remaining_modules, eligible_modules,
                   completed_set, current_semester, current_credits, plan_text,
                   appVars, graphVars, simVars, viewVars>>

\* One iteration in which nothing fits a semester that holds modules.
PlanCloseSemester ==
    /\ plan_pc = "loop"
    /\ eligible_modules # <<>>
    /\ ~TruthyStr(BestFit(eligible_modules, current_credits, target_credits))
    /\ current_semester # <<>>
    /\ semesters' = Append(semesters, current_semester)
    /\ current_semester' = <<>>
    /\ current_credits' = 0
    /\ UNCHANGED <<plan_pc, target_credits, remaining_modules, eligible_modules,
                   completed_set, plan_text, appVars, graphVars, simVars,
                   viewVars>>

\* One iteration in which nothing fits an empty semester: break.
PlanBreak ==
    /\ plan_pc = "loop"
    /\ eligible_modules # <<>>
    /\ ~TruthyStr(BestFit(eligible_modules, current_credits, target_credits))
    /\ current_semester = <<>>
    /\ plan_pc' = "break"
    /\ UNCHANGED <<target_credits, remaining_modules, eligible_modules,
                   completed_set, semesters, current_semester, current_credits,
                   plan_text, appVars, graphVars, simVars,
                   viewVars>>

\* Fault: the last semester is appended without the test that it holds modules.
PlanFinishAppendsAlways ==
    /\ \/ plan_pc = "loop" /\ eligible_modules = <<>>
       \/ plan_pc = "break"
    /\ LET sems == Append(semesters, current_semester)
       IN /\ semesters' = sems
          /\ plan_text' = SemestersText(sems)
    /\ plan_pc' = "done"
    /\ UNCHANGED <<target_credits, remaining_modules, eligible_modules,
                   completed_set, current_semester, current_credits,
                   appVars, graphVars, simVars, viewVars>>

\* Lines 1146-1163, after the loop: append the last semester, display the plan.
PlanFinish ==
    /\ \/ plan_pc = "loop" /\ eligible_modules = <<>>
       \/ plan_pc = "break"
    /\ LET sems == IF current_semester # <<>>
                   THEN Append(semesters, current_semester)
                   ELSE semesters
       IN /\ semesters' = sems
          /\ plan_text' = SemestersText(sems)
    /\ plan_pc' = "done"
    /\ UNCHANGED <<target_credits, remaining_modules, eligible_modules,
                   completed_set, current_semester, current_credits,
                   appVars, graphVars, simVars,
                   viewVars>>

\* show_frame(self.credit_planner_frame) from the main menu
OpenCreditPlanner ==
    /\ displayed_frame = "main_menu_frame"
    /\ displayed_frame' = "credit_planner_frame"
    /\ messagebox' = ""
    /\ UNCHANGED <<modules_catalog, students_data, current_student,
                   graphVars, planVars, simVars,
                   viewVars>>

----------------------------------------------------------------------------
(* run_simulation *)

\* Content of self.simulation_output: one line per code walked, then the total
\* credits, the load suggestion and the summary ("" until written).
EmptyOutput == [lines |-> <<>>, total |-> 0, suggestion |-> "", summary |-> ""]

\* [pre for pre in mod.prerequisites if pre not in simulated_completed]
Missing(mod, completed) ==
    SelectSeq(mod.prerequisites, LAMBDA pre : pre \notin completed)

\* The line written for one code of the path
Verdict(code, completed) ==
    IF ~Has(modules_catalog, code)
    THEN [code |-> code, verdict |-> "NotFound", missing |-> <<>>]
    ELSE LET missing == Missing(Get(modules_catalog, code), completed) IN
         IF missing # <<>>
         THEN [code |-> code, verdict |-> "Blocked", missing |-> missing]
         ELSE [code |-> code, verdict |-> "Accepted", missing |-> <<>>]

\* Fault: a code that is not found does not clear valid_path.
ValidAfterBlockedOnly(valid, line) == valid /\ line.verdict # "Blocked"

\* valid_path after a line: False once a code is not found or blocked
ValidAfter(valid, line) == valid /\ line.verdict = "Accepted"

\* sum(self.modules_catalog[code].credits for code in module_codes
\*     if code in self.modules_catalog)
RECURSIVE TotalSimulationCredits(_)
TotalSimulationCredits(codes) ==
    IF codes = <<>> THEN 0
    ELSE (IF Has(modules_catalog, Head(codes))
          THEN Get(modules_catalog, Head(codes)).credits ELSE 0)
         + TotalSimulationCredits(Tail(codes))

\* Thresholds of the load suggestion
HeavyAbove == 20
LightBelow == 10

\* Fault: the two thresholds themselves count as heavy and as light.
SemesterSuggestionInclusive(total) ==
    IF total >= HeavyAbove THEN "heavy"
    ELSE IF total <= LightBelow THEN "light"
    ELSE "balanced"

SemesterSuggestion(total) ==
    IF total > HeavyAbove THEN "heavy"
    ELSE IF total < LightBelow THEN "light"
    ELSE "balanced"

\* Lines 968-990: the entry holds module_input, which is not blank;
\* module_codes are its comma-separated parts, stripped.
SimStart(codes) ==
    /\ displayed_frame = "simulation_frame"
    /\ current_student.some
    /\ sim_pc \in {"idle", "done"}
    /\ codes # <<>>
    /\ module_codes' = codes
    /\ sim_index' = 0
    /\ simulated_completed' = current_student.val.completed
    /\ valid_path' = TRUE
    /\ simulation_output' = EmptyOutput
    /\ sim_pc' = "walk"
    /\ messagebox' = ""
    /\ UNCHANGED <<modules_catalog, students_data, current_student,
                   displayed_frame, graphVars, planVars,
                   viewVars>>

\* Lines 973-976: the entry is blank; a dialog asks for input and the handler
\* returns.
SimBlankInput ==
    /\ displayed_frame = "simulation_frame"
    /\ current_student.some
    /\ sim_pc \in {"idle", "done"}
    /\ messagebox' = "Input Required"
    /\ UNCHANGED <<modules_catalog, students_data, current_student,
                   displayed_frame, graphVars, planVars, simVars,
                   viewVars>>

\* Fault: the code of a blocked module is added to the working copy as well.
AfterLineAddsBlocked(completed, line) ==
    IF line.verdict # "NotFound" THEN completed \cup {line.code} ELSE completed

\* simulated_completed.add(code), reached for an accepted code only
AfterLine(completed, line) ==
    IF line.verdict = "Accepted" THEN completed \cup {line.code} ELSE completed

\* Lines 993-1007: one iteration of `for code in module_codes`.
SimStep ==
    /\ sim_pc = "walk"
    /\ sim_index < Len(module_codes)
    /\ LET code == module_codes[sim_index + 1]
           line == Verdict(code, simulated_completed)
       IN /\ simulation_output' =
                 [simulation_output EXCEPT !.lines = Append(@, line)]
          /\ valid_path' = ValidAfter(valid_path, line)
          /\ simulated_completed' = AfterLine(simulated_completed, line)
    /\ sim_index' = sim_index + 1
    /\ UNCHANGED <<sim_pc, module_codes, appVars, graphVars, planVars, viewVars>>

\* Fault: the walk may end at the first code that is not found or blocked.
SimFinishAtFirstIssue ==
    /\ sim_pc = "walk"
    /\ sim_index = Len(module_codes) \/ ~valid_path
    /\ LET total == TotalSimulationCredits(module_codes) IN
       simulation_output' =
           [simulation_output EXCEPT
               !.total = total,
               !.suggestion = SemesterSuggestion(total),
               !.summary = IF valid_path THEN "valid" ELSE "has issues"]
    /\ sim_pc' = "done"
    /\ UNCHANGED <<module_codes, sim_index, simulated_completed, valid_path,
                   appVars, graphVars, planVars, viewVars>>

\* Lines 1008-1032, after the walk: total credits, suggestion, summary.
SimFinish ==
    /\ sim_pc = "walk"
    /\ sim_index = Len(module_codes)
    /\ LET total == TotalSimulationCredits(module_codes) IN
       simulation_output' =
           [simulation_output EXCEPT
               !.total = total,
               !.suggestion = SemesterSuggestion(total),
               !.summary = IF valid_path THEN "valid" ELSE "has issues"]
    /\ sim_pc' = "done"
    /\ UNCHANGED <<module_codes, sim_index, simulated_completed, valid_path,
                   appVars, graphVars, planVars,
                   viewVars>>

\* show_frame(self.simulation_frame) from the main menu
OpenSimulation ==
    /\ displayed_frame = "main_menu_frame"
    /\ displayed_frame' = "simulation_frame"
    /\ messagebox' = ""
    /\ UNCHANGED <<modules_catalog, students_data, current_student,
                   graphVars, planVars, simVars,
                   viewVars>>

----------------------------------------------------------------------------
(* update_eligible_modules_list, shown by "Search for Eligible Modules" *)

\* The related_courses table: courses in similar fields share modules.
related_courses ==
    ("Data Science" :> <<"Mathematics", "Electric Engineering", "Computer Science", "Economics">>)
 @@ ("Mathematics" :> <<"Data Science", "Electric Engineering", "Computer Science", "Economics">>)
 @@ ("Electric Engineering" :> <<"Data Science", "Mathematics", "Computer Science">>)
 @@ ("Computer Science" :> <<"Data Science", "Mathematics", "Electric Engineering">>)
 @@ ("Linguistics" :> <<"English", "Philosophy", "Sociology", "History">>)
 @@ ("Microbiology" :> <<"Biology", "Chemistry", "Medicine">>)
 @@ ("Physiology" :> <<"Biology", "Medicine">>)
 @@ ("English" :> <<"Linguistics", "History", "Philosophy">>)
 @@ ("History" :> <<"English", "Philosophy", "Sociology", "Linguistics">>)
 @@ ("Economics" :> <<"Business", "Mathematics", "Data Science", "Law">>)
 @@ ("Business" :> <<"Economics", "Law", "Sociology">>)
 @@ ("Philosophy" :> <<"Linguistics", "English", "History", "Sociology">>)
 @@ ("Sociology" :> <<"History", "Philosophy", "Psychology", "Business", "Linguistics">>)
 @@ ("Art" :> <<"History", "English">>)
 @@ ("Biology" :> <<"Chemistry", "Medicine", "Microbiology", "Physiology">>)
 @@ ("Chemistry" :> <<"Biology", "Medicine", "Microbiology">>)
 @@ ("Psychology" :> <<"Sociology", "Medicine", "Philosophy">>)
 @@ ("Law" :> <<"Economics", "Business">>)
 @@ ("Medicine" :> <<"Nursing", "Biology", "Physiology", "Chemistry", "Psychology">>)
 @@ ("Nursing" :> <<"Medicine", "Psychology">>)

\* related_courses.get(course, [])
RelatedTo(course) ==
    IF course \in DOMAIN related_courses THEN related_courses[course] ELSE <<>>

\* Fault: only the student's own course is looked up in the tracks.
TrackRelevantOwnCourse(mod, course, related) == course \in mod.tracks

\* course in mod.tracks or any(r in mod.tracks for r in related)
TrackRelevant(mod, course, related) ==
    \/ course \in mod.tracks
    \/ \E i \in 1..Len(related) : related[i] \in mod.tracks

\* The list `eligible` built by the loop over the catalog, in catalog order.
EligibleModules(catalog, student) ==
    LET related == RelatedTo(student.course) IN
    SelectSeq(catalog,
              LAMBDA mod : /\ TrackRelevant(mod, student.course, related)
                           /\ mod.code \notin student.completed
                           /\ \A pre \in Range(mod.prerequisites) :
                                  pre \in student.completed)

\* A row of the tree for a module, and the row shown when none is eligible.
TreeRow(mod) == [code |-> mod.code, note |-> "", tracks |-> mod.tracks]
NoEligibleRow ==
    [code |-> "",
     note |-> "No eligible modules found. Check if prerequisites are met.",
     tracks |-> {}]

\* Fault: the rows of the previous display are kept.
ClearTreeKeepsRows(tree) == tree

\* for item in tree.get_children(): tree.delete(item)
ClearTree(tree) == <<>>

\* The rows of the tree after the handler has run on a tree holding `tree`.
update_eligible_modules_list(tree) ==
    LET cleared == ClearTree(tree) IN
    IF ~current_student.some THEN cleared
    ELSE LET eligible == EligibleModules(modules_catalog, current_student.val) IN
         IF eligible # <<>>
         THEN cleared \o [i \in 1..Len(eligible) |-> TreeRow(eligible[i])]
         ELSE Append(cleared, NoEligibleRow)

\* show_frame(self.eligible_modules_frame) from the main menu: the frame is
\* shown and its list is updated.
OpenEligibleModules ==
    /\ displayed_frame = "main_menu_frame"
    /\ displayed_frame' = "eligible_modules_frame"
    /\ eligible_modules_tree' = update_eligible_modules_list(eligible_modules_tree)
    /\ messagebox' = ""
    /\ UNCHANGED <<modules_catalog, students_data, current_student,
                   graphVars, planVars, simVars, upcoming_modules_tree,
                   recommended_tree, progress_frame>>

\* "Back to Menu" of a frame: show_main_menu, allowed between handler runs.
BackToMenu ==
    /\ displayed_frame \notin {"login_frame", "main_menu_frame"}
    /\ plan_pc \in {"idle", "done", "raised"}
    /\ sim_pc \in {"idle", "done"}
    /\ displayed_frame' = "main_menu_frame"
    /\ messagebox' = ""
    /\ UNCHANGED <<modules_catalog, students_data, current_student,
                   graphVars, planVars, simVars, viewVars>>

\* logout() from the main menu
Logout ==
    /\ displayed_frame = "main_menu_frame"
    /\ current_student' = None
    /\ displayed_frame' = "login_frame"
    /\ messagebox' = ""
    /\ UNCHANGED <<modules_catalog, students_data,
                   graphVars, planVars, simVars, viewVars>>

----------------------------------------------------------------------------
(* update_upcoming_modules_list and update_progress_dashboard *)

\* A row of a tree: a numbered module, or a message (index 0, no code); the
\* cycle is present when the message shows one.
ModuleRow(index, code) == [index |-> index, code |-> code, note |-> "", cycle |-> None]
MessageRow(note) == [index |-> 0, code |-> "", note |-> note, cycle |-> None]
CycleRow(note, cycle) == [index |-> 0, code |-> "", note |-> note, cycle |-> Some(cycle)]

\* Fault: the prerequisites are not looked at; every module of the course that
\* is not completed is taken.
UpcomingEligibleNotCompleted(core_modules_dict, completed) ==
    SelectSeq(core_modules_dict, LAMBDA mod : mod.code \notin completed)

\* eligible_modules of update_upcoming_modules_list: the core modules that are
\* not completed and whose prerequisites are all completed, in dict order
UpcomingEligible(core_modules_dict, completed) ==
    SelectSeq(core_modules_dict,
              LAMBDA mod : /\ mod.code \notin completed
                           /\ \A pre \in Range(mod.prerequisites) : pre \in completed)

\* The rows of the tree after update_upcoming_modules_list; the tree is
\* cleared first, and stays empty when enumerate(None) raises.
update_upcoming_modules_list ==
    IF ~current_student.some THEN <<>>
    ELSE LET core_modules_dict ==
                 get_core_modules_for_course(current_student.val.course)
             eligible == UpcomingEligible(core_modules_dict,
                                          current_student.val.completed)
             sorted == topological_sort(eligible)
         IN IF core_modules_dict = <<>>
            THEN <<MessageRow("No core modules found for this course")>>
            ELSE IF eligible = <<>>
            THEN <<MessageRow("No eligible modules found. Check prerequisites.")>>
            ELSE IF TruthyList(sorted.cycle)
            THEN <<CycleRow("Error: Cycle detected in prerequisites", sorted.cycle.val)>>
            ELSE IF ~sorted.ordering.some THEN <<>>
            ELSE [i \in 1..Len(sorted.ordering.val) |->
                      ModuleRow(i, sorted.ordering.val[i])]

\* show_frame(self.upcoming_modules_frame) from the main menu
OpenUpcomingModules ==
    /\ displayed_frame = "main_menu_frame"
    /\ displayed_frame' = "upcoming_modules_frame"
    /\ upcoming_modules_tree' = update_upcoming_modules_list
    /\ messagebox' = ""
    /\ UNCHANGED <<modules_catalog, students_data, current_student,
                   graphVars, planVars, simVars, eligible_modules_tree,
                   recommended_tree, progress_frame>>

\* sum(mod.credits for mod in ...)
RECURSIVE TotalCredits(_)
TotalCredits(mods) ==
    IF mods = <<>> THEN 0 ELSE Head(mods).credits + TotalCredits(Tail(mods))

\* The numbers behind the labels of the progress frame (the percentage and the
\* bar are texts computed from the two counts), or the message shown instead.
ProgressSummary(course_modules, completed) ==
    [note |-> "",
     total_course_modules |-> Len(course_modules),
     completed_count |-> Cardinality(completed),
     total_credits |-> TotalCredits(course_modules),
     completed_credits |->
         TotalCredits(SelectSeq(modules_catalog, LAMBDA mod : mod.code \in completed))]
NoModulesSummary ==
    [note |-> "No modules found for this course", total_course_modules |-> 0,
     completed_count |-> 0, total_credits |-> 0, completed_credits |-> 0]

\* recommended_modules of update_progress_dashboard, in dict order
RecommendedModules(course_modules, completed) ==
    SelectSeq(course_modules,
              LAMBDA mod : /\ mod.code \notin completed
                           /\ \A pre \in Range(mod.prerequisites) : pre \in completed)

\* The rows of the recommended tree after update_progress_dashboard
RecommendedRows(course_modules, completed) ==
    LET recommended == RecommendedModules(course_modules, completed)
        sorted == topological_sort(recommended)
    IN IF recommended = <<>>
       THEN <<MessageRow("No eligible modules found. Check prerequisites.")>>
       ELSE IF TruthyList(sorted.cycle)
       THEN <<MessageRow("Cycle detected in prerequisites")>>
       ELSE IF ~sorted.ordering.some THEN <<>>
       ELSE [i \in 1..Len(sorted.ordering.val) |->
                 ModuleRow(i, sorted.ordering.val[i])]

\* show_frame(self.progress_dashboard_frame) from the main menu: the labels and
\* the tree are cleared, then filled unless the course has no module.
OpenProgressDashboard ==
    /\ displayed_frame = "main_menu_frame"
    /\ displayed_frame' = "progress_dashboard_frame"
    /\ IF ~current_student.some
       THEN progress_frame' = None /\ recommended_tree' = <<>>
       ELSE LET course_modules ==
                    get_core_modules_for_course(current_student.val.course)
                completed == current_student.val.completed
            IN IF course_modules = <<>>
               THEN /\ progress_frame' = Some(NoModulesSummary)
                    /\ recommended_tree' = <<>>
               ELSE /\ progress_frame' =
                           Some(ProgressSummary(course_modules, completed))
                    /\ recommended_tree' = RecommendedRows(course_modules, completed)
    /\ messagebox' = ""
    /\ UNCHANGED <<modules_catalog, students_data, current_student,
                   graphVars, planVars, simVars, eligible_modules_tree,
                   upcoming_modules_tree>>

----------------------------------------------------------------------------
(* States in which a handler is not running *)

PlanIdle ==
    /\ plan_pc = "idle"
    /\ target_credits = 0
    /\ remaining_modules = <<>>
    /\ eligible_modules = <<>>
    /\ completed_set = {}
    /\ semesters = <<>>
    /\ current_semester = <<>>
    /\ current_credits = 0
    /\ plan_text = EmptyText

SimIdle ==
    /\ sim_pc = "idle"
    /\ module_codes = <<>>
    /\ sim_index = 0
    /\ simulated_completed = {}
    /\ valid_path = TRUE
    /\ simulation_output = EmptyOutput

GraphIdle ==
    /\ selected_modules = <<>>
    /\ sort_result = None
    /\ cycle_result = None

ViewIdle ==
    /\ eligible_modules_tree = <<>>
    /\ upcoming_modules_tree = <<>>
    /\ recommended_tree = <<>>
    /\ progress_frame = None

AppIdle ==
    /\ modules_catalog = <<>>
    /\ students_data = <<>>
    /\ current_student = None
    /\ displayed_frame = "login_frame"
    /\ messagebox = ""

----------------------------------------------------------------------------
(* Specification of the two graph functions on every bounded subset *)

\* Prerequisite lists: any codes, repeated or not, the own code included.
PrereqLists == UNION {[1..k -> Codes] : k \in 0..MaxPrereqs}

\* The subset whose keys are the first Len(pl) codes in dict order, with the
\* prerequisite lists pl; a prerequisite naming one of the other codes points
\* outside the subset.
GraphSubset(pl) ==
    [i \in 1..Len(pl) |-> Module(CodeOrder[i], {}, pl[i], DefaultCredits)]

GraphInit ==
    /\ \E n \in 0..Len(CodeOrder) : \E pl \in [1..n -> PrereqLists] :
           selected_modules = GraphSubset(pl)
    /\ sort_result = None
    /\ cycle_result = None
    /\ AppIdle /\ PlanIdle /\ SimIdle /\ ViewIdle

CallTopologicalSort ==
    /\ sort_result = None
    /\ sort_result' = Some(topological_sort(selected_modules))
    /\ UNCHANGED <<selected_modules, cycle_result, appVars, planVars, simVars,
                   viewVars>>

CallDetectCycle ==
    /\ cycle_result = None
    /\ cycle_result' = Some(detect_cycle(selected_modules))
    /\ UNCHANGED <<selected_modules, sort_result, appVars, planVars, simVars,
                   viewVars>>

GraphNext == CallTopologicalSort \/ CallDetectCycle

SpecGraph == GraphInit /\ [][GraphNext]_vars

----------------------------------------------------------------------------
(* Properties of the graph functions *)

\* p is a prerequisite of d and both are keys of the subset
InSubsetEdge(sel, p, d) ==
    /\ Has(sel, p) /\ Has(sel, d)
    /\ p \in Range(Get(sel, d).prerequisites)

\* c is a closed walk of in-subset edges: c[1] -> c[2] -> ... -> c[k] -> c[1]
IsCycleOf(sel, c) ==
    /\ Len(c) >= 1
    /\ \A i \in 1..(Len(c) - 1) : InSubsetEdge(sel, c[i], c[i + 1])
    /\ InSubsetEdge(sel, c[Len(c)], c[1])

NoRepeat(s) == \A i, j \in 1..Len(s) : i # j => s[i] # s[j]

\* The in-subset graph has a cycle: some closed walk over distinct keys exists
\* (stated over the edges, independently of both algorithms).
HasCycle(sel) ==
    \E k \in 1..Len(sel) : \E c \in [1..k -> KeySet(sel)] :
        NoRepeat(c) /\ IsCycleOf(sel, c)

PositionIn(s, x) == CHOOSE i \in 1..Len(s) : s[i] = x

\* C1: on every subset whose in-subset prerequisite graph is acyclic,
\* topological_sort returns an ordering and no cycle, the ordering holds every
\* subset code exactly once, and every in-subset prerequisite comes before its
\* dependent.
C1_AcyclicSortSucceeds ==
    (sort_result.some /\ ~HasCycle(selected_modules)) =>
        LET r == sort_result.val IN
        /\ r.ordering.some
        /\ ~r.cycle.some
        /\ Len(r.ordering.val) = Len(selected_modules)
        /\ Range(r.ordering.val) = KeySet(selected_modules)
        /\ \A p, d \in KeySet(selected_modules) :
               InSubsetEdge(selected_modules, p, d) =>
                   PositionIn(r.ordering.val, p) < PositionIn(r.ordering.val, d)

\* C1 witness: the sort has run on an acyclic subset that has an in-subset edge
\* against the dict order and a prerequisite pointing outside the subset.
C1_Witness ==
    /\ sort_result.some
    /\ ~HasCycle(selected_modules)
    /\ Len(selected_modules) = 2
    /\ InSubsetEdge(selected_modules, "B", "A")
    /\ "C" \in Range(selected_modules[1].prerequisites)

\* C2: topological_sort returns no ordering exactly when detect_cycle, run on
\* the same subset, returns a cycle.
C2_SortFailsIffCycleDetected ==
    (sort_result.some /\ cycle_result.some) =>
        (~sort_result.val.ordering.some <=> cycle_result.val.some)

\* C2 witness: both have run on a subset with a self-dependency and a
\* prerequisite listed twice, and the sort failed.
C2_Witness ==
    /\ sort_result.some /\ cycle_result.some
    /\ ~sort_result.val.ordering.some
    /\ cycle_result.val.some
    /\ \E i \in 1..Len(selected_modules) :
           selected_modules[i].prerequisites
               = <<selected_modules[i].code, selected_modules[i].code>>

\* C3: a cycle returned by detect_cycle consists of subset keys, each adjacent
\* pair is an in-subset edge, the last element has an edge back to the first,
\* and no code occurs twice.
C3_ReportedCycleIsReal ==
    (cycle_result.some /\ cycle_result.val.some) =>
        LET c == cycle_result.val.val IN
        /\ Range(c) \subseteq KeySet(selected_modules)
        /\ IsCycleOf(selected_modules, c)
        /\ NoRepeat(c)

\* C3 witness: detect_cycle returned a cycle that is a proper slice of the DFS
\* path (the path starts outside the cycle).
C3_Witness ==
    /\ cycle_result.some /\ cycle_result.val.some
    /\ Len(cycle_result.val.val) = 2
    /\ Len(selected_modules) = 3
    /\ selected_modules[1].code \notin Range(cycle_result.val.val)
    /\ InSubsetEdge(selected_modules, selected_modules[1].code, cycle_result.val.val[1])

\* C11: topological_sort returns exactly one of an ordering and a cycle: an
\* ordering without a cycle, or no ordering with a cycle that is a non-empty
\* path and is the value detect_cycle returns when called on the same subset.
C11_ExactlyOneOfOrderingAndCycle ==
    sort_result.some =>
        LET r == sort_result.val IN
        /\ r.ordering.some <=> ~r.cycle.some
        /\ r.cycle.some => Len(r.cycle.val) >= 1
        /\ (~r.ordering.some /\ cycle_result.some) => r.cycle = cycle_result.val

\* C11 witness: both functions have run on a subset of three modules in which
\* the last two require each other; the sort failed and carries a cycle.
C11_Witness ==
    /\ sort_result.some /\ cycle_result.some
    /\ ~sort_result.val.ordering.some
    /\ sort_result.val.cycle.some
    /\ Len(selected_modules) = 3
    /\ InSubsetEdge(selected_modules, "B", "C")
    /\ InSubsetEdge(selected_modules, "C", "B")

\* The subset with every prerequisite code that is no key of it deleted from
\* the modules' lists
StripOutOfSubset(sel) ==
    [i \in 1..Len(sel) |->
        [sel[i] EXCEPT !.prerequisites = SelectSeq(@, LAMBDA p : Has(sel, p))]]

\* Number of positions of d's prerequisite list that name a key of the subset
InSubsetPrereqCount(sel, d) ==
    Cardinality({j \in 1..Len(Get(sel, d).prerequisites) :
                    Has(sel, Get(sel, d).prerequisites[j])})

\* C15: once both functions have run on a subset: the graph has an edge p -> d
\* exactly when p is listed by d and both are keys of the subset, the in-degree
\* of d counts these listings only, and topological_sort and detect_cycle
\* returned the same as on the subset with the out-of-subset prerequisite
\* codes deleted.
C15_OutOfSubsetPrerequisitesInvisible ==
    (sort_result.some /\ cycle_result.some) =>
        LET stripped == StripOutOfSubset(selected_modules)
            graph == BuildGraph(selected_modules)
            in_degree == BuildInDegree(selected_modules)
        IN /\ \A p, d \in KeySet(selected_modules) :
                  d \in Range(graph[p]) <=> InSubsetEdge(selected_modules, p, d)
           /\ \A d \in KeySet(selected_modules) :
                  in_degree[d] = InSubsetPrereqCount(selected_modules, d)
           /\ sort_result.val = topological_sort(stripped)
           /\ cycle_result.val = detect_cycle(stripped)

\* C15 witness: both functions have run on a subset of two modules with an
\* in-subset edge, each module listing the out-of-subset code "C" as well; the
\* sort succeeded.
C15_Witness ==
    /\ sort_result.some /\ cycle_result.some
    /\ Len(selected_modules) = 2
    /\ InSubsetEdge(selected_modules, "B", "A")
    /\ \A i \in 1..2 : "C" \in Range(selected_modules[i].prerequisites)
    /\ sort_result.val.ordering = Some(<<"B", "A">>)

\* Position in the ordering at which the in-degree of d reaches zero: the
\* position of the last of its in-subset prerequisites, 0 when it has none.
ReadyAt(sel, ordering, d) ==
    LET at == {PositionIn(ordering, p) :
                  p \in {q \in KeySet(sel) : InSubsetEdge(sel, q, d)}}
    IN IF at = {} THEN 0 ELSE CHOOSE m \in at : \A n \in at : n <= m

\* C23: a returned ordering begins with the modules without in-subset
\* prerequisite in the subset's iteration order; any two modules appear in the
\* order in which their in-degree reached zero, and in iteration order when
\* that happened at the same node; a subset without in-subset edge is returned
\* in its iteration order.
C23_FifoTieBreaking ==
    (sort_result.some /\ sort_result.val.ordering.some) =>
        LET sel == selected_modules
            ordering == sort_result.val.ordering.val
            roots == SelectSeq(Keys(sel), LAMBDA c : InSubsetPrereqCount(sel, c) = 0)
        IN /\ SubSeq(ordering, 1, Len(roots)) = roots
           /\ \A i, j \in 1..Len(ordering) :
                  i < j =>
                      \/ ReadyAt(sel, ordering, ordering[i]) < ReadyAt(sel, ordering, ordering[j])
                      \/ /\ ReadyAt(sel, ordering, ordering[i]) = ReadyAt(sel, ordering, ordering[j])
                         /\ Index(Keys(sel), ordering[i]) < Index(Keys(sel), ordering[j])
           /\ (\A p, d \in KeySet(sel) : ~InSubsetEdge(sel, p, d)) => ordering = Keys(sel)

\* C23 witness: the sort has run on a subset in which the first two modules
\* both require the third: the third comes first, then the two in iteration
\* order.
C23_Witness ==
    /\ sort_result.some
    /\ Len(selected_modules) = 3
    /\ InSubsetEdge(selected_modules, "C", "A")
    /\ InSubsetEdge(selected_modules, "C", "B")
    /\ sort_result.val.ordering = Some(<<"C", "A", "B">>)

\* Codes of the subset that are in their own prerequisite list
SelfDependent(sel) ==
    {sel[i].code : i \in {k \in 1..Len(sel) : sel[k].code \in Range(sel[k].prerequisites)}}

\* c's self-dependency is the only in-subset edge
OnlySelfEdge(sel, c) ==
    \A p, d \in KeySet(sel) : InSubsetEdge(sel, p, d) <=> (p = c /\ d = c)

\* C24: on a subset with a module that lists its own code, detect_cycle
\* returns a cycle and topological_sort returns no ordering and a cycle; when
\* the self-dependency is the only in-subset edge both cycles are the sequence
\* of that one code.
C24_SelfDependencyIsCycle ==
    SelfDependent(selected_modules) # {} =>
        /\ cycle_result.some =>
               /\ cycle_result.val.some
               /\ \A c \in KeySet(selected_modules) :
                      OnlySelfEdge(selected_modules, c) => cycle_result.val.val = <<c>>
        /\ sort_result.some =>
               /\ ~sort_result.val.ordering.some
               /\ sort_result.val.cycle.some
               /\ \A c \in KeySet(selected_modules) :
                      OnlySelfEdge(selected_modules, c) => sort_result.val.cycle.val = <<c>>

\* C24 witness: both functions have run on a subset of three modules whose
\* only in-subset edge is the self-dependency of the second; both report the
\* cycle of that one code.
C24_Witness ==
    /\ sort_result.some /\ cycle_result.some
    /\ Len(selected_modules) = 3
    /\ OnlySelfEdge(selected_modules, "B")
    /\ cycle_result.val = Some(<<"B">>)
    /\ sort_result.val.cycle = Some(<<"B">>)

----------------------------------------------------------------------------
(* Specification of the credit planner: login, open the planner, plan *)

\* Credits of a module: the default 3 or 10
CreditValues == {DefaultCredits, 10}

\* Targets typed into the entry: negative, zero, room for one small module,
\* for one large module, for a large and a small one
TargetValues == {0 - 1, 0, 3, 10, 13}

SetToSeq(S) == SelectSeq(CodeOrder, LAMBDA c : c \in S)

\* Prerequisite lists of the planner's catalogs: up to MaxPrereqs codes, the
\* own code included, listed in code order.  The planner reads a list through
\* all(...) and through the edges of topological_sort, which are inserted
\* dependent by dependent: neither depends on the order inside a list.
PlanPrereqLists == {SetToSeq(S) : S \in {T \in SUBSET Codes : Cardinality(T) <= MaxPrereqs}}

\* A and B are modules of both courses, C is a module of Computer Science only.
PlanTracks(i) ==
    IF i < Len(CodeOrder) THEN {"Computer Science", "Mathematics"}
    ELSE {"Computer Science"}

\* Student records: with and without completed modules, in either course; one
\* completed list names a code ("Z") that no catalog holds, one holds every
\* module of the student's course.
DemoStudents ==
    << [student_id |-> "100001", course |-> "Computer Science", completed |-> <<>>],
       [student_id |-> "100002", course |-> "Computer Science", completed |-> <<"A", "Z">>],
       [student_id |-> "100003", course |-> "Mathematics", completed |-> <<>>],
       [student_id |-> "100004", course |-> "Mathematics", completed |-> <<"A", "B">>] >>

StudentIds(data) == {data[k].student_id : k \in 1..Len(data)}

PlanInit ==
    /\ \E pl \in [1..Len(CodeOrder) -> PlanPrereqLists] :
       \E cr \in [1..Len(CodeOrder) -> CreditValues] :
           modules_catalog =
               [i \in 1..Len(CodeOrder) |->
                    Module(CodeOrder[i], PlanTracks(i), pl[i], cr[i])]
    /\ students_data = DemoStudents
    /\ current_student = None
    /\ displayed_frame = "login_frame"
    /\ messagebox = ""
    /\ GraphIdle /\ PlanIdle /\ SimIdle /\ ViewIdle

\* Each behaviour follows one run of the handler from the fresh planner frame:
\* a later run resets every local and overwrites plan_text, so it repeats a
\* first run.
PlanNext ==
    \/ \E id \in StudentIds(students_data) : Login(id)
    \/ OpenCreditPlanner
    \/ \E target \in TargetValues : plan_pc = "idle" /\ PlanStart(target)
    \/ plan_pc = "idle" /\ messagebox = "" /\ PlanBadTarget
    \/ PlanCommit
    \/ PlanCloseSemester
    \/ PlanBreak
    \/ PlanFinish

SpecPlan == PlanInit /\ [][PlanNext]_vars

----------------------------------------------------------------------------
(* Properties of the credit planner *)

\* The handler has returned after displaying a list of semesters.
PlanProduced == plan_pc = "done" /\ plan_text.kind = "semesters"

\* Codes placed in the displayed plan
Placed == UNION {Range(plan_text.semesters[s]) : s \in 1..Len(plan_text.semesters)}

RECURSIVE SumCredits(_, _)
SumCredits(codes, catalog) ==
    IF codes = <<>> THEN 0
    ELSE Get(catalog, Head(codes)).credits + SumCredits(Tail(codes), catalog)

\* p is placed in semester s before position k, or in an earlier semester
PlacedBefore(sems, p, s, k) ==
    \E s2 \in 1..s : \E k2 \in 1..Len(sems[s2]) :
        /\ sems[s2][k2] = p
        /\ (s2 = s => k2 < k)

\* C4: in every plan produced, each prerequisite of a placed module is in the
\* student's completed set or placed in the same or an earlier semester, and
\* before the module when in the same semester.
C4_PrerequisitesPlacedFirst ==
    PlanProduced =>
        LET sems == plan_text.semesters IN
        \A s \in 1..Len(sems) : \A k \in 1..Len(sems[s]) :
            \A p \in Range(Get(modules_catalog, sems[s][k]).prerequisites) :
                \/ p \in current_student.val.completed
                \/ PlacedBefore(sems, p, s, k)

\* C4 witness: a produced plan places a module after its prerequisite in the
\* same semester, and another module with a completed prerequisite.
C4_Witness ==
    /\ PlanProduced
    /\ \E s \in 1..Len(plan_text.semesters) :
           /\ Len(plan_text.semesters[s]) >= 2
           /\ plan_text.semesters[s][1] \in
                  Range(Get(modules_catalog, plan_text.semesters[s][2]).prerequisites)
    /\ \E m \in Placed :
           Range(Get(modules_catalog, m).prerequisites) \cap
               current_student.val.completed # {}

\* C5: in every plan produced, the credits of the modules of each semester sum
\* to at most the target.
C5_SemesterWithinCap ==
    PlanProduced =>
        \A s \in 1..Len(plan_text.semesters) :
            SumCredits(plan_text.semesters[s], modules_catalog) <= target_credits

\* C5 witness: a produced plan with a semester filled exactly to the target by
\* two modules and a later semester.
C5_Witness ==
    /\ PlanProduced
    /\ Len(plan_text.semesters) >= 2
    /\ Len(plan_text.semesters[1]) = 2
    /\ SumCredits(plan_text.semesters[1], modules_catalog) = target_credits

\* Remaining modules that the displayed plan leaves out
Unplaced == KeySet(remaining_modules) \ Placed

\* C8: when the remaining set is acyclic and the planner leaves remaining
\* modules unplaced, the result is a blocked result, distinct from a plan,
\* holding the semesters scheduled so far (violated: the handler displays the
\* semesters exactly as for a complete plan).
C8_BlockedResultReported ==
    (/\ plan_pc = "done"
     /\ target_credits > 0
     /\ remaining_modules # <<>>
     /\ ~HasCycle(remaining_modules)
     /\ Unplaced # {}) =>
        /\ plan_text.kind = "blocked"
        /\ plan_text.semesters = semesters

\* C9: a target that is zero or negative is reported as an invalid
\* configuration, and neither the planning loop is entered nor a plan displayed
\* (violated: the handler checks only that the entry is an integer).
C9_NonPositiveCapRejected ==
    (plan_pc # "idle" /\ target_credits <= 0) =>
        /\ plan_pc = "done"
        /\ messagebox # ""
        /\ plan_text.kind # "semesters"

SpecPlanFair ==
    SpecPlan /\ WF_vars(PlanCommit \/ PlanCloseSemester \/ PlanBreak \/ PlanFinish)

\* The remaining set can be planned in full: it is acyclic, each prerequisite
\* of a remaining module is completed or remaining, the target is positive and
\* no remaining module has more credits than the target.
PlanFeasible ==
    /\ current_student.some
    /\ ~HasCycle(remaining_modules)
    /\ \A i \in 1..Len(remaining_modules) :
           /\ Range(remaining_modules[i].prerequisites)
                  \subseteq current_student.val.completed \cup KeySet(remaining_modules)
           /\ remaining_modules[i].credits <= target_credits
    /\ target_credits > 0

\* Number of places of the displayed plan that hold the code
TimesPlaced(code) ==
    Cardinality({sk \in (1..Len(plan_text.semesters)) \X (1..Len(CodeOrder)) :
                    /\ sk[2] <= Len(plan_text.semesters[sk[1]])
                    /\ plan_text.semesters[sk[1]][sk[2]] = code})

\* The handler has ended and every remaining module is in exactly one
\* semester of the displayed plan.
PlanComplete ==
    /\ plan_pc = "done"
    /\ \A c \in KeySet(remaining_modules) : TimesPlaced(c) = 1

RemainingCapacity == target_credits - current_credits

ValidAssignment(sems) ==
    /\ \A s \in 1..Len(sems) :
           /\ sems[s] # <<>>
           /\ Range(sems[s]) \subseteq KeySet(remaining_modules)
           /\ SumCredits(sems[s], remaining_modules) <= target_credits
           /\ \A k \in 1..Len(sems[s]) :
                  \A p \in Range(Get(remaining_modules, sems[s][k]).prerequisites) :
                      \/ p \in current_student.val.completed
                      \/ PlacedBefore(sems, p, s, k)
    /\ \A c \in KeySet(remaining_modules) :
           Cardinality({sk \in (1..Len(sems)) \X (1..Len(remaining_modules)) :
                           /\ sk[2] <= Len(sems[sk[1]])
                           /\ sems[sk[1]][sk[2]] = c}) = 1

\* An input on which the first fit is not the best: A (3 credits) and B (10
\* credits) have no prerequisite, C (3 credits) requires B, nothing is
\* completed and the target is 10.
FirstFitTrap ==
    /\ plan_pc = "done"
    /\ target_credits = 10
    /\ current_student.val.completed = {}
    /\ Keys(remaining_modules) = <<"A", "B", "C">>
    /\ [i \in 1..3 |-> remaining_modules[i].prerequisites] = << <<>>, <<>>, <<"B">> >>
    /\ [i \in 1..3 |-> remaining_modules[i].credits] = <<3, 10, 3>>

\* C22: on the input above, which is feasible, the planner displays a valid
\* plan of three semesters although the same modules can be assigned to two
\* semesters within the target and the prerequisites: B alone, then A and C.
C22_FirstFitNotMinimal ==
    FirstFitTrap =>
        /\ PlanFeasible
        /\ plan_text.kind = "semesters"
        /\ ValidAssignment(plan_text.semesters)
        /\ ValidAssignment(<< <<"B">>, <<"A", "C">> >>)
        /\ Len(plan_text.semesters) > 2

\* C22 witness: the planner has ended on that input and displayed A, B and C
\* in a semester each.
C22_Witness ==
    /\ FirstFitTrap
    /\ plan_text.semesters = << <<"A">>, <<"B">>, <<"C">> >>

\* Iterations the loop can still make: two per remaining module that is not
\* committed, one more while the current semester holds modules.
LoopMeasure ==
    2 * Cardinality(KeySet(remaining_modules) \ completed_set)
        + (IF current_semester # <<>> THEN 1 ELSE 0)

\* C25: every iteration of the planning loop commits a module, closes a
\* semester that holds modules, or leaves the loop; an iteration that stays in
\* the loop lowers LoopMeasure, a closing iteration leaves the current
\* semester empty so that the next one cannot close again; and the handler,
\* once in the loop, reaches its end, whatever the target.
C25_PlanningLoopTerminates ==
    /\ [][plan_pc = "loop" =>
              \/ /\ plan_pc' = "loop"
                 /\ Cardinality(completed_set') = Cardinality(completed_set) + 1
                 /\ LoopMeasure' < LoopMeasure
              \/ /\ plan_pc' = "loop"
                 /\ current_semester # <<>>
                 /\ semesters' = Append(semesters, current_semester)
                 /\ current_semester' = <<>>
                 /\ LoopMeasure' < LoopMeasure
              \/ plan_pc' \in {"break", "done"}]_vars
    /\ (plan_pc = "loop") ~> (plan_pc = "done")

\* C25 witness: the handler has ended after committing a module, closing its
\* semester and breaking on a remaining module of more credits than the
\* target.
C25_Witness ==
    /\ plan_pc = "done"
    /\ target_credits = 3
    /\ Len(plan_text.semesters) = 1
    /\ eligible_modules # <<>>
    /\ eligible_modules[1].credits > target_credits

\* Flattening of a list of semesters
RECURSIVE Flatten(_)
Flatten(sems) == IF sems = <<>> THEN <<>> ELSE Head(sems) \o Flatten(Tail(sems))

\* The planner is past its start: its lists hold the codes committed so far.
PlanBuilding == plan_pc \in {"loop", "break", "done"}

\* C26: the codes committed so far, and the codes of a plan displayed, are
\* pairwise different keys of the remaining set: modules of the student's
\* course that the student has not completed.
C26_PlacedOnceFromRemaining ==
    PlanBuilding =>
        LET built == Flatten(semesters) \o (IF plan_pc = "done" THEN <<>> ELSE current_semester)
            shown == Flatten(plan_text.semesters)
        IN \A codes \in {built, shown} :
               /\ NoRepeat(codes)
               /\ Range(codes) \subseteq KeySet(remaining_modules)
               /\ \A c \in Range(codes) :
                      /\ c \notin current_student.val.completed
                      /\ Has(modules_catalog, c)
                      /\ current_student.val.course \in Get(modules_catalog, c).tracks

\* C26 witness: a plan displayed for a student of Mathematics who has
\* completed nothing, in a catalog whose third module is of another course
\* only: the plan holds the two modules of the course.
C26_Witness ==
    /\ PlanProduced
    /\ current_student.val.course = "Mathematics"
    /\ current_student.val.completed = {}
    /\ Placed = {"A", "B"}

\* C27: no semester of the list built by the planner, and none of a plan
\* displayed, is empty; with a target of zero or less the plan displayed is
\* the empty list.
C27_NoEmptySemester ==
    PlanBuilding =>
        /\ \A s \in 1..Len(semesters) : semesters[s] # <<>>
        /\ \A s \in 1..Len(plan_text.semesters) : plan_text.semesters[s] # <<>>
        /\ (plan_pc = "done" /\ target_credits <= 0) => plan_text.semesters = <<>>

\* C27 witness: the handler has ended after the break on three remaining
\* modules and a target of zero: the plan displayed is the empty list.
C27_Witness ==
    /\ plan_pc = "done"
    /\ target_credits = 0
    /\ Len(remaining_modules) = 3
    /\ eligible_modules # <<>>
    /\ plan_text = SemestersText(<<>>)

----------------------------------------------------------------------------
(* Specification of the path simulation: login, open the simulation, walk *)

\* Prerequisite lists of the simulation's catalogs: up to two distinct codes in
\* either order, the own code and a code outside the catalog included.
SimPrereqLists == {pl \in UNION {[1..k -> Codes] : k \in 0..2} : NoRepeat(pl)}

\* Paths: one to MaxPath codes, repeated or not; the last code of CodeOrder is
\* in no catalog of this specification.
Paths == UNION {[1..k -> Codes] : k \in 1..MaxPath}

\* Catalogs hold all codes but the last.
SimInit ==
    /\ \E pl \in [1..(Len(CodeOrder) - 1) -> SimPrereqLists] :
       \E cr \in [1..(Len(CodeOrder) - 1) -> CreditValues] :
           modules_catalog =
               [i \in 1..(Len(CodeOrder) - 1) |->
                    Module(CodeOrder[i], PlanTracks(i), pl[i], cr[i])]
    /\ students_data = SubSeq(DemoStudents, 1, 2)
    /\ current_student = None
    /\ displayed_frame = "login_frame"
    /\ messagebox = ""
    /\ GraphIdle /\ PlanIdle /\ SimIdle /\ ViewIdle

\* Each behaviour follows one run of the handler from the fresh simulation
\* frame: a later run resets every local and the output.
SimNext ==
    \/ \E id \in StudentIds(students_data) : Login(id)
    \/ OpenSimulation
    \/ \E codes \in Paths : sim_pc = "idle" /\ SimStart(codes)
    \/ sim_pc = "idle" /\ messagebox = "" /\ SimBlankInput
    \/ SimStep
    \/ SimFinish

SpecSim == SimInit /\ [][SimNext]_vars

----------------------------------------------------------------------------
(* Properties of the path simulation *)

\* Sum of the credits of the codes of a set that the catalog holds
RECURSIVE SumOverSet(_)
SumOverSet(S) ==
    IF S = {} THEN 0
    ELSE LET c == CHOOSE x \in S : TRUE IN
         (IF Has(modules_catalog, c) THEN Get(modules_catalog, c).credits ELSE 0)
         + SumOverSet(S \ {c})

\* C6: the total credits displayed equal the sum of the credits of the
\* distinct codes of the path that the catalog holds (violated: a code is
\* counted once per occurrence in the path).
C6_TotalOverDistinctCodes ==
    sim_pc = "done" =>
        simulation_output.total = SumOverSet(Range(module_codes))

\* C7: the path is summarised as valid exactly when every code of the path got
\* the verdict Accepted.
C7_ValidIffAllAccepted ==
    sim_pc = "done" =>
        /\ Len(simulation_output.lines) = Len(module_codes)
        /\ (simulation_output.summary = "valid") <=>
               (\A i \in 1..Len(module_codes) :
                    /\ simulation_output.lines[i].code = module_codes[i]
                    /\ simulation_output.lines[i].verdict = "Accepted")

\* C7 witness: a finished walk whose only flaw is a code that is not in the
\* catalog, after an accepted one.
C7_Witness ==
    /\ sim_pc = "done"
    /\ Len(simulation_output.lines) = 2
    /\ simulation_output.lines[1].verdict = "Accepted"
    /\ simulation_output.lines[2].verdict = "NotFound"
    /\ simulation_output.summary = "has issues"

\* The walk is under way or over: the lines written so far are verdicts.
SimWalked == sim_pc \in {"walk", "done"}

\* The real completed set with the codes accepted before position i of the walk
WorkingCopyAt(i) ==
    current_student.val.completed
        \cup {simulation_output.lines[j].code :
                 j \in {k \in 1..(i - 1) :
                            simulation_output.lines[k].verdict = "Accepted"}}

\* The verdict at position i is the one the working copy at i calls for.
VerdictFollowsWorkingCopy(i) ==
    LET line == simulation_output.lines[i] IN
    /\ line.code = module_codes[i]
    /\ IF ~Has(modules_catalog, line.code) THEN line.verdict = "NotFound"
       ELSE LET pres == Get(modules_catalog, line.code).prerequisites IN
            /\ line.verdict = "Accepted" <=> Range(pres) \subseteq WorkingCopyAt(i)
            /\ line.verdict # "Accepted" =>
                   /\ line.verdict = "Blocked"
                   /\ Range(line.missing) = Range(pres) \ WorkingCopyAt(i)
                   /\ line.missing # <<>>

\* The working copy is the real completed set plus the codes accepted so far,
\* and every verdict written follows from the working copy at its position.
WalkInvariant ==
    /\ sim_index = Len(simulation_output.lines)
    /\ simulated_completed = WorkingCopyAt(sim_index + 1)
    /\ \A i \in 1..sim_index : VerdictFollowsWorkingCopy(i)

\* The code at position k lists the code at the earlier position i.
DependsOnEarlier(i, k) ==
    /\ i < k
    /\ Has(modules_catalog, module_codes[k])
    /\ module_codes[i] \in Range(Get(modules_catalog, module_codes[k]).prerequisites)

\* C16 as stated: the walk invariant, and a code that depends on a code blocked
\* earlier in the walk is blocked too (violated: the blocked code may be in the
\* real completed set, or be accepted when it is entered again).
C16_BlockedBlocksDependents ==
    SimWalked =>
        /\ WalkInvariant
        /\ \A i, k \in 1..sim_index :
               (/\ DependsOnEarlier(i, k)
                /\ simulation_output.lines[i].verdict = "Blocked") =>
                   simulation_output.lines[k].verdict = "Blocked"

\* C16 amended: the walk invariant, and a code that depends on a code blocked
\* earlier in the walk is blocked too unless the blocked code is in the working
\* copy at the later position (it is in the real completed set or was accepted
\* at another position before).
C16_WalkFollowsWorkingCopy ==
    SimWalked =>
        /\ WalkInvariant
        /\ \A i, k \in 1..sim_index :
               (/\ DependsOnEarlier(i, k)
                /\ simulation_output.lines[i].verdict = "Blocked"
                /\ module_codes[i] \notin WorkingCopyAt(k)) =>
                   simulation_output.lines[k].verdict = "Blocked"

\* C16 witness: a walk of three codes over a student without completed
\* modules: the first is blocked, the second depends on the first and is
\* blocked for it, the third is accepted and is in the working copy.
C16_Witness ==
    /\ sim_pc = "walk"
    /\ sim_index = 3
    /\ current_student.val.completed = {}
    /\ simulation_output.lines[1].verdict = "Blocked"
    /\ DependsOnEarlier(1, 2)
    /\ module_codes[1] \in Range(simulation_output.lines[2].missing)
    /\ simulation_output.lines[3].verdict = "Accepted"
    /\ module_codes[3] \in simulated_completed

\* C17: the walk writes one verdict per code of the path, in path order, and
\* ends only after the last code: a code that is not found or blocked does not
\* keep the codes after it from getting their verdict.
C17_OneVerdictPerCode ==
    SimWalked =>
        /\ Len(simulation_output.lines) = sim_index
        /\ sim_index <= Len(module_codes)
        /\ \A i \in 1..sim_index :
               /\ simulation_output.lines[i].code = module_codes[i]
               /\ simulation_output.lines[i].verdict
                      \in {"Accepted", "Blocked", "NotFound"}
        /\ sim_pc = "done" => sim_index = Len(module_codes)

\* C17 witness: a finished walk of three codes: the first is not found, the
\* second is blocked, the third is accepted.
C17_Witness ==
    /\ sim_pc = "done"
    /\ Len(simulation_output.lines) = 3
    /\ simulation_output.lines[1].verdict = "NotFound"
    /\ simulation_output.lines[2].verdict = "Blocked"
    /\ simulation_output.lines[3].verdict = "Accepted"

\* C18: the total displayed is called heavy exactly when it is above 20, light
\* exactly when it is below 10 and balanced exactly when it is 10 to 20.
C18_LoadClassByThresholds ==
    sim_pc = "done" =>
        LET t == simulation_output.total
            class == simulation_output.suggestion
        IN /\ class \in {"heavy", "light", "balanced"}
           /\ class = "heavy" <=> t > 20
           /\ class = "light" <=> t < 10
           /\ class = "balanced" <=> (10 <= t /\ t <= 20)

\* C18 witness: a finished walk whose total is exactly 20, called balanced.
C18_Witness ==
    /\ sim_pc = "done"
    /\ simulation_output.total = 20
    /\ simulation_output.suggestion = "balanced"

----------------------------------------------------------------------------
(* Specification of the eligible-modules view: login, open the view, go back, *)
(* log out                                                                    *)

\* Track lists of the catalogs: the course of a student, a course related to
\* another one, a course that relates to nobody, a course outside the table,
\* no course at all.
EligTrackSets ==
    {{"Computer Science"}, {"Mathematics", "Art"}, {"History"}, {"Astronomy"}, {}}

\* Student records: Art names History as related but History does not name
\* Art; Astronomy is not a key of related_courses; two completed lists name
\* "C", a code that no catalog of this specification holds.
EligStudents ==
    << [student_id |-> "200001", course |-> "Computer Science", completed |-> <<>>],
       [student_id |-> "200002", course |-> "Computer Science", completed |-> <<"A", "C">>],
       [student_id |-> "200003", course |-> "Art", completed |-> <<"C">>],
       [student_id |-> "200004", course |-> "History", completed |-> <<"A">>],
       [student_id |-> "200005", course |-> "Astronomy", completed |-> <<"B">>] >>

\* Catalogs hold all codes but the last; a prerequisite list may name the own
\* code and the code outside the catalog.  The handler reads a list through
\* all(...) only, which does not depend on the order inside the list.
EligInit ==
    /\ \E pl \in [1..(Len(CodeOrder) - 1) -> PlanPrereqLists] :
       \E tr \in [1..(Len(CodeOrder) - 1) -> EligTrackSets] :
           modules_catalog =
               [i \in 1..(Len(CodeOrder) - 1) |->
                    Module(CodeOrder[i], tr[i], pl[i], DefaultCredits)]
    /\ students_data = EligStudents
    /\ current_student = None
    /\ displayed_frame = "login_frame"
    /\ messagebox = ""
    /\ GraphIdle /\ PlanIdle /\ SimIdle /\ ViewIdle

EligNext ==
    \/ \E id \in StudentIds(students_data) : Login(id)
    \/ OpenEligibleModules
    \/ BackToMenu
    \/ Logout

SpecElig == EligInit /\ [][EligNext]_vars

----------------------------------------------------------------------------
(* Properties of the eligible-modules view *)

\* The view is displayed: its rows are those of the last run of the handler.
EligibleShown == displayed_frame = "eligible_modules_frame"

\* Codes of the module rows of the tree
ShownCodes ==
    {eligible_modules_tree[i].code :
        i \in {j \in 1..Len(eligible_modules_tree) :
                   eligible_modules_tree[j] # NoEligibleRow}}

\* The primary course with the courses the table relates to it
Affinity(course) == {course} \cup Range(RelatedTo(course))

\* C12: the view lists exactly the catalog modules whose tracks intersect the
\* student's course and its related courses, whose code is not completed and
\* whose prerequisites are all completed: each of them once, in catalog order,
\* and the "none found" row alone when there is none.
C12_EligibleExactlyTheRelevantUnlocked ==
    EligibleShown =>
        LET st == current_student.val
            want == {i \in 1..Len(modules_catalog) :
                        /\ modules_catalog[i].tracks \cap Affinity(st.course) # {}
                        /\ modules_catalog[i].code \notin st.completed
                        /\ Range(modules_catalog[i].prerequisites)
                               \subseteq st.completed}
        IN /\ ShownCodes = {modules_catalog[i].code : i \in want}
           /\ IF want = {}
              THEN eligible_modules_tree = <<NoEligibleRow>>
              ELSE /\ Len(eligible_modules_tree) = Cardinality(want)
                   /\ \A i, j \in 1..Len(eligible_modules_tree) :
                          i < j =>
                              Index(Keys(modules_catalog), eligible_modules_tree[i].code)
                                < Index(Keys(modules_catalog), eligible_modules_tree[j].code)

\* C12 witness: an Art student is shown a module of a related course (History)
\* and not the other catalog module, which is of a course outside Art's
\* relations.
C12_Witness ==
    /\ EligibleShown
    /\ current_student.val.course = "Art"
    /\ \E i, j \in 1..Len(modules_catalog) :
           /\ modules_catalog[i].tracks = {"History"}
           /\ modules_catalog[i].code \in ShownCodes
           /\ modules_catalog[j].tracks = {"Computer Science"}
           /\ modules_catalog[j].prerequisites = <<>>
           /\ modules_catalog[j].code \notin ShownCodes

\* C13: a module that lists a prerequisite code that is no key of the catalog
\* is never listed as eligible, whoever is logged in.
C13_AbsentPrerequisiteNeverEligible ==
    EligibleShown =>
        \A c \in ShownCodes :
            \A pre \in Range(Get(modules_catalog, c).prerequisites) :
                Has(modules_catalog, pre)

\* C13 witness: the view is shown to a student whose record names the code "C"
\* as completed, in a catalog without "C" that holds a module of the student's
\* course, not completed, whose only prerequisite is "C".
C13_Witness ==
    /\ EligibleShown
    /\ \E k \in 1..Len(students_data) :
           /\ students_data[k].student_id = current_student.val.student_id
           /\ "C" \in Range(students_data[k].completed)
    /\ ~Has(modules_catalog, "C")
    /\ \E i \in 1..Len(modules_catalog) :
           /\ modules_catalog[i].prerequisites = <<"C">>
           /\ current_student.val.course \in modules_catalog[i].tracks
           /\ modules_catalog[i].code \notin current_student.val.completed

\* C14: when the view is opened while the tree holds the rows of a run of the
\* handler on the current catalog and student, the run leaves the same rows
\* in the same order; and no run changes what the handler reads (the catalog,
\* the current student, the student records).
C14_EligibleIdempotent ==
    [][(displayed_frame = "main_menu_frame" /\ EligibleShown') =>
          /\ modules_catalog' = modules_catalog
          /\ current_student' = current_student
          /\ students_data' = students_data
          /\ (eligible_modules_tree = update_eligible_modules_list(<<>>) =>
                  eligible_modules_tree' = eligible_modules_tree)]_vars

\* C14 witness: back in the main menu after a run that listed two modules, for
\* the student who is still logged in: the next opening is a second run on the
\* same inputs.
C14_Witness ==
    /\ displayed_frame = "main_menu_frame"
    /\ Len(eligible_modules_tree) = 2
    /\ eligible_modules_tree = update_eligible_modules_list(<<>>)

----------------------------------------------------------------------------
(* Specification of the Upcoming Core Modules view and the progress dashboard *)

\* Student records: every way of having completed some of the modules, in the
\* course that holds all three modules, in the course that holds two, and in a
\* course that holds none; one completed list names a code no catalog holds.
ViewStudents ==
    << [student_id |-> "300001", course |-> "Computer Science", completed |-> <<>>],
       [student_id |-> "300002", course |-> "Computer Science", completed |-> <<"A">>],
       [student_id |-> "300003", course |-> "Computer Science", completed |-> <<"B", "Z">>],
       [student_id |-> "300004", course |-> "Computer Science", completed |-> <<"A", "B">>],
       [student_id |-> "300005", course |-> "Computer Science", completed |-> <<"C", "B", "A">>],
       [student_id |-> "300006", course |-> "Mathematics", completed |-> <<"B">>],
       [student_id |-> "300007", course |-> "History", completed |-> <<>>] >>

\* Catalogs hold every code; a prerequisite list may name the own code.  Both
\* views read a list through all(...) and through the edges of
\* topological_sort, neither of which depends on the order inside the list.
ViewInit ==
    /\ \E pl \in [1..Len(CodeOrder) -> PlanPrereqLists] :
       \E cr \in [1..Len(CodeOrder) -> CreditValues] :
           modules_catalog =
               [i \in 1..Len(CodeOrder) |->
                    Module(CodeOrder[i], PlanTracks(i), pl[i], cr[i])]
    /\ students_data = ViewStudents
    /\ current_student = None
    /\ displayed_frame = "login_frame"
    /\ messagebox = ""
    /\ GraphIdle /\ PlanIdle /\ SimIdle /\ ViewIdle

\* One student per behaviour: the trees keep their rows while the student
\* goes back to the menu and opens the other view or the same view again.
ViewNext ==
    \/ \E id \in StudentIds(students_data) : Login(id)
    \/ OpenUpcomingModules
    \/ OpenProgressDashboard
    \/ BackToMenu

SpecView == ViewInit /\ [][ViewNext]_vars

\* The course modules that are not completed and whose prerequisites are all
\* completed, stated over the catalog.
Unlocked(course, completed) ==
    {code \in KeySet(modules_catalog) :
         /\ course \in Get(modules_catalog, code).tracks
         /\ code \notin completed
         /\ Range(Get(modules_catalog, code).prerequisites) \subseteq completed}

NoInSubsetEdge(sel) ==
    \A p \in KeySet(sel) : \A d \in KeySet(sel) : ~InSubsetEdge(sel, p, d)

\* The rows show no cycle, and show the keys of sel numbered in dict order
\* when sel is not empty.
ShowsInDictOrder(tree, sel) ==
    /\ \A k \in 1..Len(tree) :
           /\ ~tree[k].cycle.some
           /\ tree[k].note \notin {"Error: Cycle detected in prerequisites",
                                   "Cycle detected in prerequisites"}
    /\ sel # <<>> =>
           tree = [i \in 1..Len(sel) |-> ModuleRow(i, sel[i].code)]

UpcomingUpdated ==
    current_student.some /\
    (displayed_frame = "upcoming_modules_frame" \/ upcoming_modules_tree # <<>>)

DashboardUpdated ==
    current_student.some /\
    (displayed_frame = "progress_dashboard_frame" \/ progress_frame.some)

\* C28: the subset that the Upcoming Core Modules view and the progress
\* dashboard pass to topological_sort holds the modules of the student's course
\* that are not completed and whose prerequisites are all completed; it never
\* holds an in-subset prerequisite edge, topological_sort returns its keys in
\* dict order and no cycle, and the view shows these keys in that order and
\* never a cycle row.
C28_ViewSubsetHasNoEdge ==
    /\ UpcomingUpdated =>
           LET passed == UpcomingEligible(
                             get_core_modules_for_course(current_student.val.course),
                             current_student.val.completed)
           IN /\ KeySet(passed) = Unlocked(current_student.val.course,
                                           current_student.val.completed)
              /\ NoInSubsetEdge(passed)
              /\ topological_sort(passed) =
                     [ordering |-> Some(Keys(passed)), cycle |-> None]
              /\ upcoming_modules_tree # <<>>
              /\ ShowsInDictOrder(upcoming_modules_tree, passed)
    /\ DashboardUpdated =>
           LET passed == RecommendedModules(
                             get_core_modules_for_course(current_student.val.course),
                             current_student.val.completed)
           IN /\ KeySet(passed) = Unlocked(current_student.val.course,
                                           current_student.val.completed)
              /\ NoInSubsetEdge(passed)
              /\ topological_sort(passed) =
                     [ordering |-> Some(Keys(passed)), cycle |-> None]
              /\ progress_frame.val.note = "" => recommended_tree # <<>>
              /\ ShowsInDictOrder(recommended_tree, passed)

\* Both views have been filled for the same student: each lists two modules
\* in dict order and leaves out a module of the course that is not completed,
\* because it requires a listed module.
C28_Witness ==
    /\ displayed_frame = "progress_dashboard_frame"
    /\ current_student.some
    /\ Len(upcoming_modules_tree) = 2
    /\ upcoming_modules_tree[2].index = 2
    /\ recommended_tree = upcoming_modules_tree
    /\ \E m \in Range(modules_catalog) :
           /\ current_student.val.course \in m.tracks
           /\ m.code \notin current_student.val.completed
           /\ \E k \in 1..2 : upcoming_modules_tree[k].code \in Range(m.prerequisites)

----------------------------------------------------------------------------
(* Specification of a session: login, the views and handlers reached from the *)
(* main menu, any number of times and in any order, logout                    *)

\* Prerequisite lists of the session's catalogs, module by module: a chain, a
\* cycle of two next to a free module, a module with two prerequisites, a
\* self-dependency.
SessionPrereqs ==
    { << <<>>, <<"A">>, <<"B">> >>,
      << <<"B">>, <<"A">>, <<>> >>,
      << <<>>, <<>>, <<"A", "B">> >>,
      << <<"A">>, <<>>, <<"B">> >> }

\* Targets typed into the planner: none fits, one module, two modules
SessionTargets == {0, DefaultCredits, 2 * DefaultCredits}

\* Paths typed into the simulation: in and against the order of a chain, and a
\* code that no catalog holds
SessionPaths == { <<"A", "B", "C">>, <<"C", "A">>, <<"Z">> }

Init ==
    /\ \E pl \in SessionPrereqs :
           modules_catalog =
               [i \in 1..Len(CodeOrder) |->
                    Module(CodeOrder[i], PlanTracks(i), pl[i], DefaultCredits)]
    /\ students_data = DemoStudents
    /\ current_student = None
    /\ displayed_frame = "login_frame"
    /\ messagebox = ""
    /\ GraphIdle /\ PlanIdle /\ SimIdle /\ ViewIdle

Next ==
    \/ \E id \in StudentIds(students_data) : Login(id)
    \/ Logout
    \/ BackToMenu
    \/ OpenEligibleModules
    \/ OpenCreditPlanner
    \/ \E target \in SessionTargets : PlanStart(target)
    \/ PlanBadTarget
    \/ PlanCommit
    \/ PlanCloseSemester
    \/ PlanBreak
    \/ PlanFinish
    \/ OpenSimulation
    \/ \E codes \in SessionPaths : SimStart(codes)
    \/ SimBlankInput
    \/ SimStep
    \/ SimFinish

Spec == Init /\ [][Next]_vars

----------------------------------------------------------------------------
(* Properties of a session *)

\* C19: no step of the eligibility view, the planner (with the sort and the
\* cycle detection it calls) or the simulation changes the catalog, with the
\* prerequisite lists in it, or the current student with the completed set:
\* the catalog never changes, and the current student changes at login and
\* logout only.
C19_CoreLeavesCatalogAndCompleted ==
    [][/\ modules_catalog' = modules_catalog
       /\ (current_student.some /\ current_student'.some) =>
              current_student' = current_student]_vars

\* C19 witness: the student is logged in with a completed set that is smaller
\* than both working copies: the planner has displayed a plan after committing
\* modules, the simulation has finished after accepting a code, and the
\* eligible-modules view has been filled.
C19_Witness ==
    /\ current_student.some
    /\ plan_pc = "done" /\ plan_text.kind = "semesters" /\ plan_text.semesters # <<>>
    /\ current_student.val.completed \subseteq completed_set
    /\ current_student.val.completed # completed_set
    /\ sim_pc = "done"
    /\ current_student.val.completed \subseteq simulated_completed
    /\ current_student.val.completed # simulated_completed
    /\ eligible_modules_tree # <<>>

----------------------------------------------------------------------------
(* Specification of logging in and out: login attempts with any text in the *)
(* entry, every frame opened from the main menu, back to the menu, logout   *)

\* Student records of the session: the demo students and a record whose ID has
\* five digits.
SessionStudents ==
    DemoStudents \o
    << [student_id |-> "12345", course |-> "Computer Science", completed |-> <<"B">>] >>

\* Texts typed into the ID entry: the IDs of the demo students, one of them
\* between whitespace; the five-digit ID of a record; an ID with a letter; the
\* empty text and a blank one; seven digits that start with the ID of a record;
\* six digits that match no record.
SessionEntries ==
    { <<"1", "0", "0", "0", "0", "1">>,
      <<" ", "1", "0", "0", "0", "0", "2", "\t">>,
      <<"1", "0", "0", "0", "0", "3">>,
      <<"1", "0", "0", "0", "0", "4">>,
      <<"1", "2", "3", "4", "5">>,
      <<"1", "0", "0", "0", "0", "a">>,
      <<>>,
      <<" ">>,
      <<"1", "0", "0", "0", "0", "1", "1">>,
      <<"9", "9", "9", "9", "9", "9">> }

LoginInit ==
    /\ \E pl \in SessionPrereqs :
           modules_catalog =
               [i \in 1..Len(CodeOrder) |->
                    Module(CodeOrder[i], PlanTracks(i), pl[i], DefaultCredits)]
    /\ students_data = SessionStudents
    /\ current_student = None
    /\ displayed_frame = "login_frame"
    /\ messagebox = ""
    /\ GraphIdle /\ PlanIdle /\ SimIdle /\ ViewIdle

\* The planner and the simulation are opened and left without running their
\* handlers: no step of either handler writes current_student or the frame.
LoginNext ==
    \/ \E entry \in SessionEntries : LoginAttempt(entry)
    \/ Logout
    \/ BackToMenu
    \/ OpenUpcomingModules
    \/ OpenProgressDashboard
    \/ OpenEligibleModules
    \/ OpenCreditPlanner
    \/ OpenSimulation

SpecLogin == LoginInit /\ [][LoginNext]_vars

----------------------------------------------------------------------------
(* Properties of logging in and out *)

\* The text is exactly six digits.
SixDigits(chars) == Len(chars) = 6 /\ \A i \in 1..6 : chars[i] \in Digits

\* Some student record has the text as its ID.
MatchesRecord(chars) ==
    \E k \in 1..Len(students_data) : students_data[k].student_id = Join(chars)

\* C29: over any sequence of login attempts, menu navigations, back actions and
\* logouts, a frame other than the login frame is displayed only while
\* current_student is set; a login attempt whose ID (the stripped text of the
\* entry) is not exactly six digits or matches no student record leaves
\* current_student and the displayed frame unchanged; the login frame is left
\* for the main menu only, with a student set; logout clears current_student
\* and displays the login frame, and nothing else clears current_student.
C29_SessionInvariant ==
    /\ [](displayed_frame # "login_frame" => current_student.some)
    /\ [][/\ \A entry \in SessionEntries :
                 (/\ LoginAttempt(entry)
                  /\ ~SixDigits(strip(entry)) \/ ~MatchesRecord(strip(entry)))
                     => UNCHANGED <<current_student, displayed_frame>>
          /\ (displayed_frame = "login_frame" /\ displayed_frame' # "login_frame")
                 => displayed_frame' = "main_menu_frame" /\ current_student'.some
          /\ Logout => current_student' = None /\ displayed_frame' = "login_frame"
          /\ (current_student.some /\ ~current_student'.some)
                 => displayed_frame = "main_menu_frame" /\ displayed_frame' = "login_frame"
         ]_vars

\* A student has logged in, opened the upcoming modules view, gone back to the
\* menu and logged out; after that a login attempt has been refused because no
\* record matches: the login frame is displayed and no student is set.
C29_Witness ==
    /\ displayed_frame = "login_frame"
    /\ current_student = None
    /\ upcoming_modules_tree # <<>>
    /\ messagebox = "Not Found"

====
